---- MODULE Spec2Model ----
(***************************************************************************)
(* Model of src/main.py: the Streamlit "Medical News Portal" page.         *)
(*                                                                         *)
(* One page run is the top-to-bottom execution of the script: language     *)
(* popup, sidebar language switch, the two cached store reads (fetch_news, *)
(* fetch_unique_tags), the empty-data check, the filter block and the      *)
(* two-per-row render loop.                                                *)
(*                                                                         *)
(* Text is a sequence of one-character strings.  A NULL column value       *)
(* (None / NaN in the DataFrame) is the one-element sequence Null, whose   *)
(* element is no character of any alphabet used here.                      *)
(***************************************************************************)
EXTENDS Integers, Sequences, FiniteSets

VARIABLES
    language,      \* st.session_state.language: "unset", "english", "malayalam"
    table,         \* rows of news_articles_four, newest first (read-only store)
    now,           \* wall clock, seconds
    news_cache,    \* st.cache_data entry of fetch_news: [at, value, msgs]
    tags_cache,    \* st.cache_data entry of fetch_unique_tags
    pc,            \* position of the page run
    attempt,       \* fetch_news: the loop variable `attempt`
    open_conns,    \* connections taken from the pool and not closed
    errors,        \* st.error messages shown by the current run
    news_attempts, \* get_connection calls made by the last fetch_news body
    news_outcome,  \* how the last fetch_news body ended: "none", "ok", "failed"
    tags_attempts, \* get_connection calls made by the last fetch_unique_tags body
    tags_outcome,  \* how the last fetch_unique_tags body ended
    body_log,      \* the executions of fetch_news's body: [start, end, value]
    run_log_len,   \* Len(body_log) when the current run started
    df,            \* the DataFrame fetch_news returned to the run
    unique_tags,   \* the list fetch_unique_tags returned to the run
    search_query,  \* sidebar text input
    search_tag,    \* sidebar selectbox value
    filtered_df,   \* the filter block's result
    rendered,      \* what the render loop wrote: a sequence of column groups
    page           \* how the run ended

vars == <<language, table, now, news_cache, tags_cache, pc, attempt, open_conns,
          errors, news_attempts, news_outcome, tags_attempts, tags_outcome,
          body_log, run_log_len, df, unique_tags, search_query, search_tag, filtered_df,
          rendered, page>>

----------------------------------------------------------------------------
(* Bounds of the model *)

\* longest title of the one-article inputs
MaxTextLen == 2
\* longest search query of the one-article inputs
MaxQueryLen == 2
\* most rows of a DataFrame handed to the filter block
MaxRows == 3
\* most rows of the store table in the page-run specification
MaxStoreRows == 1
\* no page run starts after this time
MaxNow == 600
\* seconds the clock may move between two page runs
AdvanceSecs == 150
\* word counts tried on each side of the preview threshold
WordSlack == 2
\* word count of a long description
LongWords == 150

(* Program constants *)

\* fetch_news: max_retries = 3
max_retries == 3
\* fetch_news: time.sleep(1)
SleepSecs == 1
\* @st.cache_data(ttl=300)
NewsTTL == 300
\* @st.cache_data(ttl=600)
TagsTTL == 600
\* mysql.connector.connect(..., pool_size=5)
PoolSize == 5
\* LIMIT 500
RowLimit == 500
\* len(desc_words) > 100, desc_words[:100]
PreviewWords == 100
\* for i in range(0, len(rows), 2)
RowStep == 2
\* cols = st.columns(2)
NumCols == 2

----------------------------------------------------------------------------
(* Text *)

Null == <<"NULL">>

IsNa(text) == text = Null

Min(a, b) == IF a < b THEN a ELSE b

\* str.lower() on the letters used here
Lower(c) ==
    CASE c = "A" -> "a"
      [] c = "B" -> "b"
      [] OTHER -> c

RECURSIVE StringsUpTo(_, _)
\* every string over `alphabet` of length at most n
StringsUpTo(alphabet, n) ==
    IF n = 0 THEN {<<>>}
    ELSE LET shorter == StringsUpTo(alphabet, n - 1)
         IN  shorter \cup {Append(s, c) : s \in shorter, c \in alphabet}

\* what str.split() with no argument splits on
Whitespace == {" ", "\t", "\n"}

\* a word of s starts at i: a non-whitespace character that is the first
\* character or follows whitespace
IsWordStart(s, i) ==
    s[i] \notin Whitespace /\ (i = 1 \/ s[i - 1] \in Whitespace)

\* where the word that starts at i ends
WordEnd(s, i) ==
    CHOOSE j \in i..Len(s) :
        /\ \A k \in i..j : s[k] \notin Whitespace
        /\ j = Len(s) \/ s[j + 1] \in Whitespace

RECURSIVE WordsIn(_, _, _)
\* the words of s that start at lo .. hi, in order
WordsIn(s, lo, hi) ==
    IF lo > hi THEN <<>>
    ELSE IF lo = hi
         THEN IF IsWordStart(s, lo) THEN <<SubSeq(s, lo, WordEnd(s, lo))>> ELSE <<>>
         ELSE LET mid == (lo + hi) \div 2
              IN  WordsIn(s, lo, mid) \o WordsIn(s, mid + 1, hi)

\* str.split(): the maximal runs of non-whitespace characters, in order
Split(s) == WordsIn(s, 1, Len(s))

RECURSIVE JoinRange(_, _, _)
\* words[lo] .. words[hi] with one space between two words
JoinRange(words, lo, hi) ==
    IF lo > hi THEN <<>>
    ELSE IF lo = hi THEN words[lo]
    ELSE LET mid == (lo + hi) \div 2
         IN  JoinRange(words, lo, mid) \o <<" ">> \o JoinRange(words, mid + 1, hi)

\* " ".join(words)
Join(words) == JoinRange(words, 1, Len(words))

\* one character of a pattern against one character of the text under
\* re.IGNORECASE: "." is any character but a newline, a letter is itself in
\* either case
PatternCharMatches(p, c) ==
    IF p = "." THEN c # "\n" ELSE Lower(p) = Lower(c)

\* re.search(pat, text, re.IGNORECASE) for a pattern of letters and dots
RegexSearch(pat, text) ==
    \E i \in 0..(Len(text) - Len(pat)) :
        \A k \in 1..Len(pat) : PatternCharMatches(pat[k], text[i + k])

\* one element of Series.str.contains(pat, case=False, na=False): regex is
\* left at its default, True; a missing value gives False
StrContains(text, pat) ==
    IF IsNa(text) THEN FALSE ELSE RegexSearch(pat, text)

----------------------------------------------------------------------------
(* The store: table news_articles_four *)

Languages == {"english", "malayalam"}

\* the selectbox entry that stands for "no tag filter"
AllTag == "All"

\* tag IS NULL
NullTag == "NULL"

TagValues == {"Health", AllTag}

\* Python's order on the tag strings used here ("All" < "Health")
TagRank(t) == IF t = AllTag THEN 0 ELSE 1

\* one row of the result set (date and image_data play no part in what is modelled)
Article(id, tag, ct, cd, mt, md) ==
    [id |-> id, tag |-> tag,
     cleaned_title |-> ct, cleaned_description |-> cd,
     malayalam_title |-> mt, malayalam_description |-> md]

\* SELECT ... FROM news_articles_four ORDER BY date DESC LIMIT 500
NewsRows(t) == SubSeq(t, 1, Min(Len(t), RowLimit))

RECURSIVE SortedSeq(_)
\* sorted(tags) on a set of distinct tags
SortedSeq(S) ==
    IF S = {} THEN <<>>
    ELSE LET m == CHOOSE x \in S : \A y \in S : TagRank(x) <= TagRank(y)
         IN  <<m>> \o SortedSeq(S \ {m})

\* sorted(SELECT DISTINCT tag FROM news_articles_four WHERE tag IS NOT NULL)
DistinctTags(t) ==
    SortedSeq({t[i].tag : i \in 1..Len(t)} \ {NullTag})

----------------------------------------------------------------------------
(* st.cache_data *)

NoEntry == [at |-> -1, value |-> <<>>, msgs |-> {}]

\* an entry answers calls made less than ttl seconds after it was stored
CacheHit(entry, ttl) == entry.at >= 0 /\ now - entry.at < ttl

\* NewsEntry, were an empty result not stored
NewsEntryDropEmpty(at, value, msgs) ==
    IF value = <<>> THEN NoEntry ELSE [at |-> at, value |-> value, msgs |-> msgs]

\* the entry a returning fetch_news leaves; st.error calls made inside the
\* cached function are stored with the value and replayed on a hit
NewsEntry(at, value, msgs) == [at |-> at, value |-> value, msgs |-> msgs]

\* the entry a returning fetch_unique_tags leaves
TagsEntry(at, value, msgs) == [at |-> at, value |-> value, msgs |-> msgs]

----------------------------------------------------------------------------
(* Messages *)

ErrConnection == "Database connection error"
ErrFetchNews == "Failed to fetch news after 3 attempts"
ErrFetchTags == "Error fetching tags"
ErrLoad == "Failed to load news data. Please try again later."

----------------------------------------------------------------------------
(* get_connection *)

\* mysql.connector.connect can hand out a connection: the pool of pool_size
\* connections is not exhausted by connections that were never closed
CanConnect == open_conns < PoolSize

----------------------------------------------------------------------------
(* The page run *)

run_vars == <<df, unique_tags, search_query, search_tag, filtered_df, rendered>>
fetch_hist == <<news_attempts, news_outcome, tags_attempts, tags_outcome>>
log_vars == <<body_log, run_log_len>>

\* the language popup: no language chosen yet, st.stop()
RunPopup ==
    /\ pc = "idle"
    /\ now <= MaxNow
    /\ language = "unset"
    /\ page' = "language_popup"
    /\ errors' = {}
    /\ run_log_len' = Len(body_log)
    /\ df' = <<>>
    /\ unique_tags' = <<>>
    /\ search_query' = <<>>
    /\ search_tag' = AllTag
    /\ filtered_df' = <<>>
    /\ rendered' = <<>>
    /\ UNCHANGED <<language, table, now, news_cache, tags_cache, pc, attempt,
                   open_conns, fetch_hist, body_log>>

\* a popup button: sets the language and asks for a rerun
ChooseLanguage(l) ==
    /\ pc = "idle"
    /\ page = "language_popup"
    /\ language = "unset"
    /\ language' = l
    /\ UNCHANGED <<table, now, news_cache, tags_cache, pc, attempt, open_conns,
                   errors, fetch_hist, log_vars, run_vars, page>>

\* a run with a language chosen: the sidebar radio sets the language, then the
\* spinner block is entered
RunStart(lang_choice) ==
    /\ pc = "idle"
    /\ now <= MaxNow
    /\ language # "unset"
    /\ language' = lang_choice
    /\ pc' = "call_news"
    /\ page' = "running"
    /\ errors' = {}
    /\ run_log_len' = Len(body_log)
    /\ df' = <<>>
    /\ unique_tags' = <<>>
    /\ search_query' = <<>>
    /\ search_tag' = AllTag
    /\ filtered_df' = <<>>
    /\ rendered' = <<>>
    /\ UNCHANGED <<table, now, news_cache, tags_cache, attempt, open_conns,
                   fetch_hist, body_log>>

\* df = fetch_news(), answered by the cache
NewsCached ==
    /\ pc = "call_news"
    /\ CacheHit(news_cache, NewsTTL)
    /\ df' = news_cache.value
    /\ errors' = errors \cup news_cache.msgs
    /\ pc' = "call_tags"
    /\ UNCHANGED <<language, table, now, news_cache, tags_cache, attempt,
                   open_conns, fetch_hist, log_vars, unique_tags,
                   search_query, search_tag, filtered_df, rendered, page>>

\* df = fetch_news(), no fresh entry: the body starts with attempt = 0
NewsBodyStart ==
    /\ pc = "call_news"
    /\ ~CacheHit(news_cache, NewsTTL)
    /\ pc' = "news_attempt"
    /\ attempt' = 0
    /\ news_attempts' = 0
    /\ news_outcome' = "none"
    /\ body_log' = Append(body_log, [start |-> now, end |-> -1, value |-> <<>>])
    /\ UNCHANGED <<language, table, now, news_cache, tags_cache, open_conns,
                   errors, tags_attempts, tags_outcome, run_log_len, run_vars,
                   page>>

\* fetch_news returns `value` having reported `msgs`: the result is stored in
\* the cache and handed to the run
NewsReturn(value, msgs, outcome) ==
    /\ df' = value
    /\ errors' = errors \cup msgs
    /\ news_cache' = NewsEntry(now, value, msgs)
    /\ news_outcome' = outcome
    /\ body_log' = [body_log EXCEPT ![Len(body_log)].end = now,
                                    ![Len(body_log)].value = value]
    /\ pc' = "call_tags"

\* an attempt whose get_connection fails: st.error, conn is None, return
NewsConnectFail ==
    /\ pc = "news_attempt"
    /\ news_attempts' = news_attempts + 1
    /\ NewsReturn(<<>>, {ErrConnection}, "failed")
    /\ UNCHANGED <<language, table, now, tags_cache, attempt, open_conns,
                   tags_attempts, tags_outcome, run_log_len, unique_tags,
                   search_query, search_tag, filtered_df, rendered, page>>

\* an attempt that connects, reads the rows, closes cursor and connection
NewsQueryOk ==
    /\ pc = "news_attempt"
    /\ CanConnect
    /\ news_attempts' = news_attempts + 1
    /\ NewsReturn(NewsRows(table), {}, "ok")
    /\ UNCHANGED <<language, table, now, tags_cache, attempt, open_conns,
                   tags_attempts, tags_outcome, run_log_len, unique_tags,
                   search_query, search_tag, filtered_df, rendered, page>>

\* an attempt that connects and whose query raises mysql.connector.Error:
\* conn.close() is skipped; the last attempt reports and returns, an earlier
\* one sleeps and the loop goes on
NewsQueryFail ==
    /\ pc = "news_attempt"
    /\ CanConnect
    /\ open_conns' = open_conns + 1
    /\ news_attempts' = news_attempts + 1
    /\ IF attempt = max_retries - 1
       THEN /\ NewsReturn(<<>>, {ErrFetchNews}, "failed")
            /\ UNCHANGED <<now, attempt>>
       ELSE /\ now' = now + SleepSecs
            /\ attempt' = attempt + 1
            /\ UNCHANGED <<df, errors, news_cache, news_outcome, body_log, pc>>
    /\ UNCHANGED <<language, table, tags_cache, tags_attempts, tags_outcome,
                   run_log_len, unique_tags, search_query, search_tag,
                   filtered_df, rendered, page>>

\* unique_tags = fetch_unique_tags(), answered by the cache
TagsCached ==
    /\ pc = "call_tags"
    /\ CacheHit(tags_cache, TagsTTL)
    /\ unique_tags' = tags_cache.value
    /\ errors' = errors \cup tags_cache.msgs
    /\ pc' = "loaded"
    /\ UNCHANGED <<language, table, now, news_cache, tags_cache, attempt,
                   open_conns, fetch_hist, log_vars, df, search_query,
                   search_tag, filtered_df, rendered, page>>

\* fetch_unique_tags returns `value` having reported `msgs`, after its one
\* get_connection call
TagsReturn(value, msgs, outcome) ==
    /\ unique_tags' = value
    /\ errors' = errors \cup msgs
    /\ tags_cache' = TagsEntry(now, value, msgs)
    /\ tags_outcome' = outcome
    /\ tags_attempts' = 1
    /\ pc' = "loaded"

\* the body of fetch_unique_tags, get_connection fails: return []
TagsConnectFail ==
    /\ pc = "call_tags"
    /\ ~CacheHit(tags_cache, TagsTTL)
    /\ TagsReturn(<<>>, {ErrConnection}, "failed")
    /\ UNCHANGED <<language, table, now, news_cache, attempt, open_conns,
                   news_attempts, news_outcome, log_vars, df, search_query,
                   search_tag, filtered_df, rendered, page>>

\* the body of fetch_unique_tags, all well: the sorted distinct tags
TagsQueryOk ==
    /\ pc = "call_tags"
    /\ ~CacheHit(tags_cache, TagsTTL)
    /\ CanConnect
    /\ TagsReturn(DistinctTags(table), {}, "ok")
    /\ UNCHANGED <<language, table, now, news_cache, attempt, open_conns,
                   news_attempts, news_outcome, log_vars, df, search_query,
                   search_tag, filtered_df, rendered, page>>

\* TagsQueryFail, were the st.error call missing
TagsQueryFailSilent ==
    /\ pc = "call_tags"
    /\ ~CacheHit(tags_cache, TagsTTL)
    /\ CanConnect
    /\ open_conns' = open_conns + 1
    /\ TagsReturn(<<>>, {}, "failed")
    /\ UNCHANGED <<language, table, now, news_cache, attempt, news_attempts,
                   news_outcome, log_vars, df, search_query, search_tag,
                   filtered_df, rendered, page>>

\* the body of fetch_unique_tags, the query raises: st.error, return [];
\* conn.close() is skipped
TagsQueryFail ==
    /\ pc = "call_tags"
    /\ ~CacheHit(tags_cache, TagsTTL)
    /\ CanConnect
    /\ open_conns' = open_conns + 1
    /\ TagsReturn(<<>>, {ErrFetchTags}, "failed")
    /\ UNCHANGED <<language, table, now, news_cache, attempt, news_attempts,
                   news_outcome, log_vars, df, search_query, search_tag,
                   filtered_df, rendered, page>>

\* if df.empty: st.error(...); st.stop()
LoadFailed ==
    /\ pc = "loaded"
    /\ df = <<>>
    /\ errors' = errors \cup {ErrLoad}
    /\ page' = "load_failed"
    /\ pc' = "idle"
    /\ UNCHANGED <<language, table, now, news_cache, tags_cache, attempt,
                   open_conns, fetch_hist, log_vars, run_vars>>

\* time passes between two runs
Advance ==
    /\ pc = "idle"
    /\ now + AdvanceSecs <= MaxNow
    /\ now' = now + AdvanceSecs
    /\ UNCHANGED <<language, table, news_cache, tags_cache, pc, attempt,
                   open_conns, errors, fetch_hist, log_vars, run_vars, page>>

----------------------------------------------------------------------------
(* The filter block *)

\* if search_query: keep the rows whose title or description in the session
\* language contains it
FilterText(d, lang, query) ==
    IF query # <<>>
    THEN IF lang = "english"
         THEN LET Keep(row) == \/ StrContains(row.cleaned_title, query)
                               \/ StrContains(row.cleaned_description, query)
              IN  SelectSeq(d, Keep)
         ELSE LET Keep(row) == \/ StrContains(row.malayalam_title, query)
                               \/ StrContains(row.malayalam_description, query)
              IN  SelectSeq(d, Keep)
    ELSE d

\* if search_tag != "All": filtered_df[filtered_df["tag"] == search_tag]
FilterTag(d, tag) ==
    IF tag # AllTag
    THEN LET Keep(row) == row.tag = tag
         IN  SelectSeq(d, Keep)
    ELSE d

\* FilterDF, were the tag step applied to df instead of filtered_df
FilterDFTagOnRaw(d, lang, query, tag) ==
    IF tag # AllTag THEN FilterTag(d, tag) ELSE FilterText(d, lang, query)

\* filtered_df after both steps
FilterDF(d, lang, query, tag) == FilterTag(FilterText(d, lang, query), tag)

\* the selectbox options: ["All"] + unique_tags
TagOptions(tags) == {AllTag} \cup {tags[i] : i \in 1..Len(tags)}

----------------------------------------------------------------------------
(* Rendering *)

NoTitleAvailable ==
    <<"N","o"," ","t","i","t","l","e"," ","a","v","a","i","l","a","b","l","e">>

NoContentAvailable ==
    <<"N","o"," ","c","o","n","t","e","n","t"," ",
      "a","v","a","i","l","a","b","l","e">>

\* the Malayalam title placeholder, two words; each word is one token here
MlNoTitle == <<"ml:thalakkettu", " ", "ml:labhyamalla">>

NoDescriptionAvailable == <<"No description available">>

Ellipsis == <<".", ".", ".">>

safe_display_text(text, default) ==
    IF IsNa(text) \/ text = <<>> THEN default ELSE text

\* title of a card in the session language
CardTitle(row, lang) ==
    IF lang = "english"
    THEN safe_display_text(row.cleaned_title, NoTitleAvailable)
    ELSE safe_display_text(row.malayalam_title, MlNoTitle)

\* desc of a card in the session language
CardDesc(row, lang) ==
    IF lang = "english"
    THEN safe_display_text(row.cleaned_description, NoContentAvailable)
    ELSE safe_display_text(row.malayalam_description, NoContentAvailable)

\* Preview, were the test len(desc_words) >= 100
PreviewOffByOne(desc) ==
    IF desc # <<>>
    THEN LET desc_words == Split(desc)
         IN  IF Len(desc_words) >= PreviewWords
             THEN [visible |-> Join(SubSeq(desc_words, 1, PreviewWords)) \o Ellipsis,
                   expander |-> <<desc>>,
                   info |-> <<>>]
             ELSE [visible |-> desc, expander |-> <<>>, info |-> <<>>]
    ELSE [visible |-> <<>>, expander |-> <<>>, info |-> NoDescriptionAvailable]

\* the description preview: what st.write shows outright (visible) and what
\* the "Read more" expander holds (expander: no element, or the one text)
Preview(desc) ==
    IF desc # <<>>
    THEN LET desc_words == Split(desc)
         IN  IF Len(desc_words) > PreviewWords
             THEN [visible |-> Join(SubSeq(desc_words, 1, PreviewWords)) \o Ellipsis,
                   expander |-> <<desc>>,
                   info |-> <<>>]
             ELSE [visible |-> desc, expander |-> <<>>, info |-> <<>>]
    ELSE [visible |-> <<>>, expander |-> <<>>, info |-> NoDescriptionAvailable]

\* one article's container
RenderCard(row, lang) ==
    [id |-> row.id,
     title |-> CardTitle(row, lang),
     preview |-> Preview(CardDesc(row, lang))]

RECURSIVE RenderCols(_, _, _, _)
\* for j, col in enumerate(cols): if i + j < len(rows): render rows[i + j]
RenderCols(rows, i, j, lang) ==
    IF j >= NumCols THEN <<>>
    ELSE (IF i + j < Len(rows)
          THEN <<RenderCard(rows[i + j + 1], lang)>>
          ELSE <<>>)
         \o RenderCols(rows, i, j + 1, lang)

RECURSIVE RenderFromStepOne(_, _, _)
\* RenderFrom, were the loop range(0, len(rows)) with no step
RenderFromStepOne(rows, i, lang) ==
    IF i >= Len(rows) THEN <<>>
    ELSE <<RenderCols(rows, i, 0, lang)>> \o RenderFromStepOne(rows, i + 1, lang)

RECURSIVE RenderFrom(_, _, _)
\* for i in range(0, len(rows), 2): one st.columns(2) group per i
RenderFrom(rows, i, lang) ==
    IF i >= Len(rows) THEN <<>>
    ELSE <<RenderCols(rows, i, 0, lang)>> \o RenderFrom(rows, i + RowStep, lang)

RenderRows(rows, lang) == RenderFrom(rows, 0, lang)

\* the sidebar inputs are read and the filter block runs
FilterBlock(query, tag) ==
    /\ pc = "loaded"
    /\ df # <<>>
    /\ tag \in TagOptions(unique_tags)
    /\ search_query' = query
    /\ search_tag' = tag
    /\ filtered_df' = FilterDF(df, language, query, tag)
    /\ pc' = "display"
    /\ UNCHANGED <<language, table, now, news_cache, tags_cache, attempt,
                   open_conns, errors, fetch_hist, log_vars, df,
                   unique_tags, rendered, page>>

\* if filtered_df.empty: st.warning("No news found. ...")
NoResults ==
    /\ pc = "display"
    /\ filtered_df = <<>>
    /\ page' = "no_results"
    /\ pc' = "idle"
    /\ UNCHANGED <<language, table, now, news_cache, tags_cache, attempt,
                   open_conns, errors, fetch_hist, log_vars, run_vars>>

\* else: the render loop
ShowResults ==
    /\ pc = "display"
    /\ filtered_df # <<>>
    /\ rendered' = RenderRows(filtered_df, language)
    /\ page' = "results"
    /\ pc' = "idle"
    /\ UNCHANGED <<language, table, now, news_cache, tags_cache, attempt,
                   open_conns, errors, fetch_hist, log_vars, df,
                   unique_tags, search_query, search_tag, filtered_df>>

----------------------------------------------------------------------------
(* Inputs *)

TextAlphabet == {"A", "b"}
QueryAlphabet == {"a", "b", "."}

\* titles of the one-article inputs: NULL, "" and short strings
Texts == {Null} \cup StringsUpTo(TextAlphabet, MaxTextLen)

\* descriptions of the one-article inputs
DescTexts == {Null, <<>>, <<"b", "A">>}

\* search queries of the one-article inputs
Queries == StringsUpTo(QueryAlphabet, MaxQueryLen)

\* search queries of the many-row inputs
RowQueries == {<<>>, <<"a">>, <<"b">>, <<".">>}

\* the texts of the rows of the many-row inputs
\* (cleaned_title, cleaned_description, malayalam_title, malayalam_description)
RowTexts ==
    { <<<<"A">>, Null, Null, <<"b">>>>,
      <<<<>>, <<"b">>, Null, <<>>>> }

RowTags == {NullTag} \cup TagValues

\* every table of at most n rows; the row at position i has id i
Tables(n) ==
    UNION { { [i \in 1..k |->
                 Article(i, tg[i], tx[i][1], tx[i][2], tx[i][3], tx[i][4])] :
              tg \in [1..k -> RowTags], tx \in [1..k -> RowTexts] } :
            k \in 0..n }

\* the state of a run that has left the spinner block with DataFrame d and
\* tag list tags
Loaded(lang, d, tags) ==
    /\ language = lang
    /\ table = d
    /\ now = 0
    /\ news_cache = NewsEntry(0, d, {})
    /\ tags_cache = TagsEntry(0, tags, {})
    /\ pc = "loaded"
    /\ attempt = 0
    /\ open_conns = 0
    /\ errors = {}
    /\ news_attempts = 1
    /\ news_outcome = "ok"
    /\ tags_attempts = 1
    /\ tags_outcome = IF tags = DistinctTags(d) THEN "ok" ELSE "failed"
    /\ body_log = <<[start |-> 0, end |-> 0, value |-> d]>>
    /\ run_log_len = 0
    /\ df = d
    /\ unique_tags = tags
    /\ search_query = <<>>
    /\ search_tag = AllTag
    /\ filtered_df = <<>>
    /\ rendered = <<>>
    /\ page = "running"

----------------------------------------------------------------------------
(* The page over its runs: store, caches, clock *)

Init ==
    /\ language = "unset"
    /\ table \in Tables(MaxStoreRows)
    /\ now = 0
    /\ news_cache = NoEntry
    /\ tags_cache = NoEntry
    /\ pc = "idle"
    /\ attempt = 0
    /\ open_conns = 0
    /\ errors = {}
    /\ news_attempts = 0
    /\ news_outcome = "none"
    /\ tags_attempts = 0
    /\ tags_outcome = "none"
    /\ body_log = <<>>
    /\ run_log_len = 0
    /\ df = <<>>
    /\ unique_tags = <<>>
    /\ search_query = <<>>
    /\ search_tag = AllTag
    /\ filtered_df = <<>>
    /\ rendered = <<>>
    /\ page = "none"

Next ==
    \/ RunPopup
    \/ \E l \in Languages : ChooseLanguage(l)
    \/ \E l \in Languages : RunStart(l)
    \/ NewsCached
    \/ NewsBodyStart
    \/ NewsConnectFail
    \/ NewsQueryOk
    \/ NewsQueryFail
    \/ TagsCached
    \/ TagsConnectFail
    \/ TagsQueryOk
    \/ TagsQueryFail
    \/ LoadFailed
    \/ \E q \in RowQueries, t \in RowTags : FilterBlock(q, t)
    \/ NoResults
    \/ ShowResults
    \/ Advance

Spec == Init /\ [][Next]_vars

----------------------------------------------------------------------------
(* The filter block and the render loop on DataFrames of several rows *)

InitFilter ==
    \E lang \in Languages, d \in Tables(MaxRows), tags_ok \in BOOLEAN :
        Loaded(lang, d, IF tags_ok THEN DistinctTags(d) ELSE <<>>)

NextFilter ==
    \/ LoadFailed
    \/ \E q \in RowQueries, t \in RowTags : FilterBlock(q, t)
    \/ NoResults
    \/ ShowResults

SpecFilter == InitFilter /\ [][NextFilter]_vars

----------------------------------------------------------------------------
(* The filter block and one card on every one-article DataFrame *)

InitArticle ==
    \E lang \in Languages, ct \in Texts, cd \in DescTexts,
       mt \in Texts, md \in DescTexts :
        Loaded(lang, <<Article(1, "Health", ct, cd, mt, md)>>, <<"Health">>)

NextArticle ==
    \/ \E q \in Queries : FilterBlock(q, AllTag)
    \/ NoResults
    \/ ShowResults

SpecArticle == InitArticle /\ [][NextArticle]_vars

----------------------------------------------------------------------------
(* The description preview on long descriptions *)

DigitChars == <<"0", "1", "2", "3", "4", "5", "6", "7", "8", "9">>

RECURSIVE Digits(_)
\* the decimal digits of k
Digits(k) ==
    IF k < 10 THEN <<DigitChars[k + 1]>>
    ELSE Digits(k \div 10) \o <<DigitChars[(k % 10) + 1]>>

RECURSIVE NumberWords(_, _, _)
\* the words "from", ..., "to", each two separated by sep
NumberWords(from, to, sep) ==
    IF from > to THEN <<>>
    ELSE IF from = to THEN Digits(to)
    ELSE LET mid == (from + to) \div 2
         IN  NumberWords(from, mid, sep) \o sep \o NumberWords(mid + 1, to, sep)

\* a description of the n words "1" ... "n", separated by sep, with pad
\* before the first and after the last
NumberedDesc(n, sep, pad) == pad \o NumberWords(1, n, sep) \o pad

Separators == { <<" ">>, <<" ", " ">>, <<"\n">>, <<"\t", " ">> }
Pads == { <<>>, <<" ">> }

WordCounts ==
    (0..WordSlack)
    \cup ((PreviewWords - WordSlack)..(PreviewWords + WordSlack))
    \cup {LongWords}

InitRender ==
    \E lang \in Languages, n \in WordCounts, sep \in Separators, pad \in Pads :
        Loaded(lang,
               <<Article(1, "Health", Null, NumberedDesc(n, sep, pad),
                         Null, NumberedDesc(n, sep, pad))>>,
               <<"Health">>)

NextRender ==
    \/ FilterBlock(<<>>, AllTag)
    \/ ShowResults

SpecRender == InitRender /\ [][NextRender]_vars

----------------------------------------------------------------------------
(* Claims *)

\* a run that has come back from fetch_news and is not over
AfterNews == pc \in {"call_tags", "loaded", "display"}

\* q occurs in text, letter case aside
IsSubstringCI(q, text) ==
    \E i \in 0..(Len(text) - Len(q)) :
        \A k \in 1..Len(q) : Lower(q[k]) = Lower(text[i + k])

ActiveTitle(row) ==
    IF language = "english" THEN row.cleaned_title ELSE row.malayalam_title

ActiveDesc(row) ==
    IF language = "english" THEN row.cleaned_description
    ELSE row.malayalam_description

\* the query is a case-insensitive substring of the row's title or of its
\* description in the active language; a NULL field has no substring
TextHit(row, q) ==
    \/ ~IsNa(ActiveTitle(row)) /\ IsSubstringCI(q, ActiveTitle(row))
    \/ ~IsNa(ActiveDesc(row)) /\ IsSubstringCI(q, ActiveDesc(row))

PassesTag(row) == search_tag = AllTag \/ row.tag = search_tag

\* the text filter as the page applies it to one row, in the active language
TextFilterKeeps(row) ==
    \/ StrContains(ActiveTitle(row), search_query)
    \/ StrContains(ActiveDesc(row), search_query)

PassesText(row) == search_query = <<>> \/ TextFilterKeeps(row)

PassesBoth(row) == PassesTag(row) /\ PassesText(row)

\* C1: when every attempt of fetch_news fails, whether at get_connection or
\* at the query, its body makes exactly 3 attempts, never a 4th, and returns
\* the empty result with a failure reported.
C1_ThreeAttemptsOnFailure ==
    /\ news_attempts <= max_retries
    /\ news_outcome = "failed" =>
          /\ news_attempts = max_retries
          /\ news_cache.value = <<>>
          /\ news_cache.msgs # {}

C3_EmptyIsNoResults ==
    ( /\ pc = "idle"
      /\ page \in {"load_failed", "no_results", "results"}
      /\ news_outcome = "ok"
      /\ df = <<>> \/ filtered_df = <<>> )
    => page = "no_results"

\* C4: the filtered result is the order-preserving subsequence of the fetched
\* articles that pass the tag filter (tag equal to the selection, or the
\* selection is "All") and the text filter (or the query is empty); "All"
\* with an empty query gives the unfiltered set; a selected tag gives only
\* articles with that tag.
C4_FilterIsConjunctive ==
    pc = "display" =>
        /\ filtered_df = SelectSeq(df, PassesBoth)
        /\ search_tag = AllTag /\ search_query = <<>> => filtered_df = df
        /\ search_tag # AllTag =>
              \A i \in 1..Len(filtered_df) : filtered_df[i].tag = search_tag

\* both filters are active and keep the first and the third of three rows
C4_Witness ==
    /\ pc = "display"
    /\ search_query # <<>>
    /\ search_tag \notin {AllTag, NullTag}
    /\ Len(df) = 3
    /\ Len(filtered_df) = 2
    /\ filtered_df[1].id = 1
    /\ filtered_df[2].id = 3
    /\ \E i \in 1..Len(df) : PassesTag(df[i]) /\ ~PassesText(df[i])

\* C5: with a non-empty query, an article passes the text filter if and only
\* if the query is a case-insensitive substring of its title or description
\* in the active language; the other language's fields and NULL fields never
\* make a match.
C5_TextFilterIsSubstring ==
    (pc = "display" /\ search_query # <<>>) =>
        \A i \in 1..Len(df) :
            (\E j \in 1..Len(filtered_df) : filtered_df[j].id = df[i].id)
            <=> TextHit(df[i], search_query)

\* C6: a description of more than 100 whitespace-delimited words shows its
\* first 100 words and an ellipsis, the full text being in the expander only;
\* one of 100 words or fewer is shown in full with no expander.
C6_PreviewAtHundredWords ==
    page = "results" =>
        \A n \in WordCounts, sep \in Separators, pad \in Pads :
            LET desc == NumberedDesc(n, sep, pad)
                shown == rendered[1][1].preview
            IN  (desc # <<>> /\ ActiveDesc(filtered_df[1]) = desc) =>
                    IF n > 100
                    THEN /\ shown.visible = NumberedDesc(100, <<" ">>, <<>>) \o Ellipsis
                         /\ shown.expander = <<desc>>
                         /\ shown.visible # desc
                    ELSE /\ shown.visible = desc
                         /\ shown.expander = <<>>

\* a card of a description of exactly 100 words has been rendered
C6_Witness ==
    /\ page = "results"
    /\ \E sep \in Separators, pad \in Pads :
          ActiveDesc(filtered_df[1]) = NumberedDesc(100, sep, pad)
    /\ rendered[1][1].preview.expander = <<>>

\* C7: n articles are laid out in ceil(n/2) groups of 2, the last of 1 when n
\* is odd, each article once, in the order of the filtered sequence.
C7_TwoPerRowInOrder ==
    page = "results" =>
        LET n == Len(filtered_df)
        IN  /\ Len(rendered) = (n + 1) \div 2
            /\ \A g \in 1..Len(rendered) :
                  /\ Len(rendered[g]) = IF 2 * g <= n THEN 2 ELSE 1
                  /\ \A c \in 1..Len(rendered[g]) :
                        rendered[g][c].id = filtered_df[2 * (g - 1) + c].id

\* three articles have been rendered
C7_Witness ==
    /\ page = "results"
    /\ Len(filtered_df) = 3
    /\ Len(rendered) = 2

EnglishPlaceholders == {NoTitleAvailable, NoContentAvailable}

MalayalamPlaceholders == {MlNoTitle}

\* the placeholders of a language
PlaceholdersOf(lang) ==
    IF lang = "english" THEN EnglishPlaceholders ELSE MalayalamPlaceholders

IsBlank(text) == IsNa(text) \/ text = <<>>

\* C8: a NULL or empty title, and a NULL or empty description, of the active
\* language is rendered as a placeholder of the active language.
C8_PlaceholderInActiveLanguage ==
    page = "results" =>
        /\ IsBlank(ActiveTitle(filtered_df[1])) =>
              rendered[1][1].title \in PlaceholdersOf(language)
        /\ IsBlank(ActiveDesc(filtered_df[1])) =>
              rendered[1][1].preview.visible \in PlaceholdersOf(language)

\* C9: every connection fetch_news or fetch_unique_tags acquires is closed
\* before the attempt that acquired it is over.
C9_ConnectionsReleased == open_conns = 0

\* C10: the body of fetch_news runs at most once per cache window; a run in
\* the window of a completed fetch, a failed one included, gets that fetch's
\* snapshot without running the body; a run outside every window runs the
\* body before it goes on, and goes on with the fresh result.
C10_OneFetchPerWindow ==
    /\ \A i \in 1..Len(body_log), j \in 1..Len(body_log) :
          i < j => /\ body_log[i].end >= 0
                   /\ body_log[j].start >= body_log[i].end + 300
    /\ AfterNews =>
          LET last == body_log[Len(body_log)]
              in_window == \E i \in 1..run_log_len : now < body_log[i].end + 300
          IN  /\ Len(body_log) > 0
              /\ last.end >= 0
              /\ now < last.end + 300
              /\ df = last.value
              /\ Len(body_log) = IF in_window THEN run_log_len ELSE run_log_len + 1

\* a run in the window of the second fetch, which failed, is served its
\* empty snapshot
C10_Witness ==
    /\ pc = "loaded"
    /\ Len(body_log) = 2
    /\ run_log_len = 2
    /\ news_outcome = "failed"
    /\ now > body_log[2].end
    /\ df = <<>>

====
